---- MODULE Spec2Model ----
(***************************************************************************)
(* Model of the ARSpace application (src/app.js, src/unnamed/part_000):    *)
(* the AR session lifecycle, the hit-test capability request, the reticle  *)
(* update done on every XR frame, and the placement of clones of the model *)
(* prototype.  One action per event handler; the platform (WebXR) and the  *)
(* rendering engine are the environment and supply the inputs.             *)
(***************************************************************************)
EXTENDS Integers, Sequences, FiniteSets, TLC

\* ------------------------------------------------------------------ bounds
MaxRequests == 2     \* requestHitTestSource calls per session, and unsettled at once
MaxHits     == 1     \* results one hit-test query returns
MaxClones   == 2     \* clones created in one run
MaxRot      == 2     \* rotation increments followed per object
MaxSetups   == 1     \* setSession calls unsettled at once

\* ----------------------------------------------------- values and helpers
\* A session object is observed only through whether it is the platform's
\* running session, so a reference to one is "none" (null), "running" or
\* "ended"; a hit-test source is "none" (null), "current" (of the running
\* session) or "stale" (of an ended session).
NoSession == "none"
NoSource  == "none"
NoPose    == <<>>    \* hit.getPose(referenceSpace) returned null

\* Scene-graph nodes: the prototype, the reticle mesh, and clones 1..MaxClones
ModelNode   == 0
ReticleNode == -1

\* The 4x4 transform reported by the platform: pose.transform.matrix, a
\* Float32Array of 16 numbers, column-major (elements 0..15 are indices
\* 1..16 here): a half-turn about Y with a translation
MatTurnedY == <<-1,0,0,0, 0,1,0,0,  0,0,-1,0,  0,1,0,1>>
Matrices   == {MatTurnedY}

\* The outcome of a call that writes a vector or a quaternion: it raised
\* (TypeError) and wrote nothing, or it wrote `value`
Raised       == [raised |-> TRUE, value |-> <<>>]
Written(val) == [raised |-> FALSE, value |-> val]

\* m.elements for the argument the application passes.  three.js expects a
\* Matrix4 and reads its `elements` array; the application passes
\* pose.transform.matrix itself, a Float32Array, which has no such
\* property: the read gives undefined
Elements(m) == [defined |-> FALSE, array |-> <<>>]

\* sqrt on the perfect squares that occur
ISqrt(n) == CHOOSE r \in 0..n : r * r = n

\* Vector3.setFromMatrixPosition(m): const e = m.elements; then e[12],
\* e[13], e[14].  Indexing undefined raises TypeError.
SetFromMatrixPosition(m) ==
    LET e == Elements(m)
    IN  IF ~e.defined THEN Raised
        ELSE Written(<<e.array[13], e.array[14], e.array[15]>>)

\* Quaternion.setFromRotationMatrix(m): const te = m.elements; then
\* te[0] .. te[10].  Indexing undefined raises TypeError; on a Matrix4 the
\* result is <<x, y, z, w>>: in the trace > 0 branch
\* s = 0.5 / sqrt(trace + 1), so with r = sqrt(trace + 1): w = r / 2 and
\* x = (m32 - m23) / (2 r).
SetFromRotationMatrix(m) ==
    LET e == Elements(m)
        te == e.array
        m11 == te[1]  m12 == te[5]  m13 == te[9]
        m21 == te[2]  m22 == te[6]  m23 == te[10]
        m31 == te[3]  m32 == te[7]  m33 == te[11]
        trace == m11 + m22 + m33
    IN  IF ~e.defined THEN Raised
        ELSE IF trace > 0 THEN
            LET r == ISqrt(trace + 1)
            IN  Written(<< (m32 - m23) \div (2 * r), (m13 - m31) \div (2 * r),
                           (m21 - m12) \div (2 * r), r \div 2 >>)
        ELSE IF m11 > m22 /\ m11 > m33 THEN
            LET s == 2 * ISqrt(1 + m11 - m22 - m33)
            IN  Written(<< s \div 4, (m12 + m21) \div s, (m13 + m31) \div s,
                           (m32 - m23) \div s >>)
        ELSE IF m22 > m33 THEN
            LET s == 2 * ISqrt(1 + m22 - m11 - m33)
            IN  Written(<< (m12 + m21) \div s, s \div 4, (m23 + m32) \div s,
                           (m13 - m31) \div s >>)
        ELSE
            LET s == 2 * ISqrt(1 + m33 - m11 - m22)
            IN  Written(<< (m13 + m31) \div s, (m23 + m32) \div s, s \div 4,
                           (m21 - m12) \div s >>)

\* Object3D defaults: position (0,0,0), quaternion (0,0,0,1)
ZeroPosition       == <<0, 0, 0>>
IdentityQuaternion == <<0, 0, 0, 1>>

\* What one hit-test query can return: a list of results, each with a
\* resolvable pose (a matrix) or none
HitResult == Matrices \cup {NoPose}
HitLists  == UNION {[1..n -> HitResult] : n \in 0..MaxHits}

\* What a query made outside its frame's callback can do, depending on the
\* platform: raise (InvalidStateError), at getHitTestResults or at getPose
\* of a result, or return the empty list
StaleOutcomes == {"raised", "empty"}

\* Object3D.add: a node is detached from its parent before it is pushed
RemoveNode(children, n) == SelectSeq(children, LAMBDA c : c # n)
AddNode(children, n)    == Append(RemoveNode(children, n), n)
Includes(children, n)   == \E i \in 1..Len(children) : children[i] = n
Occurrences(children, n) == Cardinality({i \in 1..Len(children) : children[i] = n})

VARIABLES
    loadThrew,               \* loadModel() raised before its await: init() stopped
    animationContext,        \* the renderer's XR animation loop has a session as
                             \* context (a setSession call has completed)
    modelLoaded,             \* loadModel() has returned
    initDone,                \* init() has completed
    isARSupported,           \* this.isARSupported
    modelType,               \* this.modelType; "none" while this.model is null
    modelRot,                \* increments applied to this.model.rotation.y
    scene,                   \* this.scene.children (prototype, reticle, clones)
    placedModels,            \* this.placedModels
    reticle,                 \* this.reticle: visible, position, quaternion
    hitTestSource,           \* this.hitTestSource
    hitTestSourceRequested,  \* this.hitTestSourceRequested
    arSession,               \* this.arSession
    xrSession,               \* the platform's immersive session: "none", "running",
                             \* or "ending" (end() called, 'end' event not yet delivered)
    isPresenting,            \* renderer.xr.isPresenting: XR frames are delivered
    sessionRequestPending,   \* a requestSession promise is unsettled
    pendingSetSession,       \* unsettled renderer.xr.setSession calls: on the
                             \* platform's session (cur), on ended ones (old)
    pendingHitTest,          \* unsettled requestHitTestSource calls: of the running session, of ended ones
    issued,                  \* requestHitTestSource calls made in the current session
    failedInSession,         \* a capability request was rejected in the current session
    ui,                      \* container classes, status text, fallback message, instruction text
    lastQuery,               \* the hit-test query made by the handler that ran last
    sessionCall              \* the call on the session API made by the handler that ran last

vars == << loadThrew, animationContext, modelLoaded, initDone, isARSupported, modelType, modelRot, scene, placedModels,
           reticle, hitTestSource, hitTestSourceRequested,
           arSession, xrSession, isPresenting, sessionRequestPending, pendingSetSession,
           pendingHitTest, issued, failedInSession, ui,
           lastQuery, sessionCall >>

\* ------------------------------------------------------------ UI helpers
\* ui.status is the status text on display, "hidden" when the element is hidden
ShowStatus(u, msg) == [u EXCEPT !.status = msg]
HideStatus(u)      == [u EXCEPT !.status = "hidden"]
ShowFallbackMessage(u) == [u EXCEPT !.fallbackShown = TRUE, !.instruction = "fallback"]

\* ----------------------------------------------------- reticle and clones
\* handleHitTest, the part after the query returned `results`: with a pose,
\* the reticle is made visible, then its position and its quaternion are
\* written; a call that raises ends the handler there (handleHitTest's
\* promise rejects, nobody awaits it)
ReticleUpdate(ret, results) ==
    IF Len(results) > 0 THEN
        LET pose  == results[1]
            shown == [ret EXCEPT !.visible = TRUE]
            p     == SetFromMatrixPosition(pose)
            q     == SetFromRotationMatrix(pose)
        IN  IF pose = NoPose THEN ret
            ELSE IF p.raised THEN shown
            ELSE IF q.raised THEN [shown EXCEPT !.position = p.value]
            ELSE [shown EXCEPT !.position = p.value, !.quaternion = q.value]
    ELSE [ret EXCEPT !.visible = FALSE]

\* container class 'surface-detected' after the same branch: it is added
\* after the pose is written, so only if neither call raised
SurfaceDetected(was, results) ==
    IF Len(results) > 0 THEN
        IF results[1] = NoPose THEN was
        ELSE IF SetFromMatrixPosition(results[1]).raised
                  \/ SetFromRotationMatrix(results[1]).raised THEN was
        ELSE TRUE
    ELSE FALSE

\* userData.rotationSpeed = 0.01, in units of 0.01 rad per render
RotationSpeed == 1

\* Mutant of PlaceClone: the clone is put one unit above the reticle
PlaceClone_Lifted(id, ret) ==
    [id |-> id,
     position |-> <<ret.position[1], ret.position[2] + 1, ret.position[3]>>,
     quaternion |-> ret.quaternion,
     rotationSpeed |-> RotationSpeed, isPlaced |-> TRUE, rot |-> 0]

\* onSelect: the clone of the prototype stamped with the reticle's pose
PlaceClone(id, ret) ==
    [id |-> id, position |-> ret.position, quaternion |-> ret.quaternion,
     rotationSpeed |-> RotationSpeed, isPlaced |-> TRUE, rot |-> 0]

\* Mutant of RotatePlaced: the animation also lifts the instances
RotatePlaced_MovesInstances(placed) ==
    [i \in 1..Len(placed) |->
        [placed[i] EXCEPT !.rot = @ + placed[i].rotationSpeed,
                          !.position = <<@[1], @[2] + 1, @[3]>>]]

\* Mutant of RotatePlaced: the rotation is set to the increment, not
\* advanced by it
RotatePlaced_SetsIncrement(placed) ==
    [i \in 1..Len(placed) |->
        [placed[i] EXCEPT !.rot = placed[i].rotationSpeed]]

\* Mutant of RotatePlaced: the callback returns before the animation
RotatePlaced_Skipped(placed) == placed

\* render: model.rotation.y += model.userData.rotationSpeed, for each clone
RotatePlaced(placed) ==
    [i \in 1..Len(placed) |->
        IF placed[i].rotationSpeed # 0
        THEN [placed[i] EXCEPT !.rot = @ + placed[i].rotationSpeed]
        ELSE placed[i]]

\* Mutant of RemoveAll: only the first placed instance is removed
RemoveAll_FirstOnly(children, placed) ==
    IF placed = <<>> THEN children ELSE RemoveNode(children, Head(placed).id)

RECURSIVE RemoveAll(_, _)
\* placedModels.forEach(model => scene.remove(model))
RemoveAll(children, placed) ==
    IF placed = <<>> THEN children
    ELSE RemoveAll(RemoveNode(children, Head(placed).id), Tail(placed))

\* No hit-test query was made
NoQuery == [made |-> FALSE, threw |-> FALSE, count |-> 0, first |-> NoPose,
            frame |-> "none"]

\* What a query observed: whether it raised, how many results it returned
\* (none, one, several), the pose of the first of them, and the frame it was
\* made on: "current" for the frame whose callback is executing, "returned"
\* for a frame whose callback has returned
Observed(results) ==
    [made |-> TRUE, threw |-> FALSE,
     count |-> IF Len(results) > 1 THEN 2 ELSE Len(results),
     first |-> IF Len(results) > 0 THEN results[1] ELSE NoPose,
     frame |-> "current"]
QueryThrew == [made |-> TRUE, threw |-> TRUE, count |-> 0, first |-> NoPose,
               frame |-> "current"]

\* Mutant of FreshId: every confirmation hands out the same object
FreshId_Reused(children) == 1

\* A node identity no live clone has (a new object)
FreshId(children) == CHOOSE n \in 1..(Len(children) + 1) :
                        /\ ~Includes(children, n)
                        /\ \A k \in 1..(n - 1) : Includes(children, k)

\* ------------------------------------------------------------------ Init
\* new THREE.GLTFLoader() in loadModel, outside its try block: it returns
\* the loader, or it raises (the loader script is not there) and loadModel
\* rejects
LoaderOutcomes == {"constructed", "raised"}

\* The state when the constructor's task ends: init() has run initThreeJS
\* (the reticle is in the scene) and loadModel up to its await of the
\* loader, whose showStatus replaced the status init() had put up; or
\* loadModel raised when it made the loader, and init() ends there, before
\* any listener is set up
Init ==
    /\ \E loader \in LoaderOutcomes : loadThrew = (loader = "raised")
    /\ animationContext = FALSE
    /\ modelLoaded = FALSE
    /\ initDone = FALSE
    /\ isARSupported = FALSE
    /\ modelType = "none"
    /\ modelRot = 0
    /\ scene = <<ReticleNode>>
    /\ placedModels = <<>>
    /\ reticle = [visible |-> FALSE, position |-> ZeroPosition,
                  quaternion |-> IdentityQuaternion]
    /\ hitTestSource = NoSource
    /\ hitTestSourceRequested = FALSE
    /\ arSession = NoSession
    /\ xrSession = NoSession
    /\ isPresenting = FALSE
    /\ sessionRequestPending = FALSE
    /\ pendingSetSession = [cur |-> 0, old |-> 0]
    /\ pendingHitTest = [cur |-> 0, old |-> 0]
    /\ issued = 0
    /\ failedInSession = FALSE
    /\ ui = [arActive |-> FALSE, surfaceDetected |-> FALSE,
             status |-> "Loading test.glb model...",
             fallbackShown |-> FALSE, instruction |-> "initial"]
    /\ lastQuery = NoQuery
    /\ sessionCall = "none"

\* --------------------------------------------------------------- init()
\* What loading the asset can do: the loader hands over a scene; it hands
\* over a file without a scene (gltf.scene is undefined and traverse
\* raises); it reports an error
LoadOutcomes == {"loaded", "noScene", "failed"}

\* loadModel's try block: the model it leaves, "none" when it raised
GlbAttempt(outcome) == IF outcome = "loaded" THEN "glb" ELSE "none"

\* createFallbackIcosahedron
CreateFallbackIcosahedron == "icosahedron"

\* loadModel's try and catch: the kind of this.model afterwards
LoadedKind(outcome) ==
    IF GlbAttempt(outcome) = "none" THEN CreateFallbackIcosahedron
    ELSE GlbAttempt(outcome)

\* loadModel's last step: if (this.model) this.scene.add(this.model)
SceneAfterLoad(children, kind) ==
    IF kind # "none" THEN AddNode(children, ModelNode) ELSE children

\* showSuccessStatus in loadModel / createFallbackIcosahedron
LoadStatus(kind) ==
    IF kind = "glb" THEN "GLB model loaded successfully!"
    ELSE IF kind = "icosahedron" THEN "Polygonal icosahedron created with shadows!"
    ELSE "Loading test.glb model..."

\* The loader answers: loadModel from its await to its return, in a task
\* of its own
LoadModel(outcome) ==
    /\ ~loadThrew
    /\ ~modelLoaded
    /\ modelLoaded' = TRUE
    /\ modelType' = LoadedKind(outcome)
    /\ scene' = SceneAfterLoad(scene, modelType')
    /\ ui' = ShowStatus(ui, LoadStatus(modelType'))
    /\ UNCHANGED << loadThrew, animationContext, initDone, isARSupported, modelRot, placedModels, reticle,
                    hitTestSource, hitTestSourceRequested, arSession, xrSession,
                    isPresenting, sessionRequestPending, pendingSetSession, pendingHitTest,
                    issued, failedInSession >>
    /\ lastQuery' = NoQuery
    /\ sessionCall' = "none"

\* The rest of init(): checkARSupport, setupEventListeners, animate,
\* hideStatus.  supported is the answer of navigator.xr.isSessionSupported
\* (FALSE also when it rejects or navigator.xr is absent).
InitApp(supported) ==
    /\ modelLoaded
    /\ ~initDone
    /\ initDone' = TRUE
    /\ isARSupported' = supported
    /\ ui' = IF supported THEN HideStatus(ui) ELSE ShowFallbackMessage(HideStatus(ui))
    /\ UNCHANGED << loadThrew, animationContext, modelLoaded, modelType, scene, modelRot, placedModels,
                    reticle, hitTestSource,
                    hitTestSourceRequested, arSession, xrSession, isPresenting,
                    sessionRequestPending, pendingSetSession, pendingHitTest,
                    issued, failedInSession >>
    /\ lastQuery' = NoQuery
    /\ sessionCall' = "none"

\* A setTimeout(() => this.hideStatus(), ...) fires.  Timers are not
\* counted: one may be pending whenever a status is on display (loadModel,
\* the AR button's handler and startAR's catch block schedule them).
HideStatusTimer ==
    /\ modelLoaded
    /\ ui.status # "hidden"
    /\ ui' = HideStatus(ui)
    /\ UNCHANGED << loadThrew, animationContext, modelLoaded, initDone, isARSupported, modelType, modelRot, scene,
                    placedModels, reticle, hitTestSource,
                    hitTestSourceRequested, arSession, xrSession, isPresenting,
                    sessionRequestPending, pendingSetSession, pendingHitTest,
                    issued, failedInSession >>
    /\ lastQuery' = NoQuery
    /\ sessionCall' = "none"

\* ------------------------------------------------------ session lifecycle
\* Mutant of StartFailed: the failure is not reported
StartFailed_Silent(u) == u

\* The catch block of startAR
StartFailed(u) == ShowStatus(u, "Failed to start AR session")

\* The platform has a request pending or an immersive session active: it
\* rejects a further requestSession.  A session counts as active until
\* end() is called on it or the platform shuts it down.
Busy(pending, session) == pending \/ session = "running"

\* requestSession as the platform sees it: a call made while it is busy,
\* or one made while it is not
RequestSession(pending, session) ==
    IF Busy(pending, session) THEN "requestSessionWhileBusy"
    ELSE "requestSession"

\* Mutant of ClickARButton: the session is requested without looking at
\* isARSupported
ClickARButton_NoSupportCheck ==
    /\ initDone
    /\ IF Busy(sessionRequestPending, xrSession)
       THEN /\ ui' = StartFailed(ShowStatus(ui, "Starting AR session..."))
            /\ UNCHANGED sessionRequestPending
       ELSE /\ ui' = ShowStatus(ui, "Starting AR session...")
            /\ sessionRequestPending' = TRUE
    /\ UNCHANGED << loadThrew, animationContext, modelLoaded, initDone, isARSupported, modelType, modelRot, scene,
                    placedModels, reticle, hitTestSource,
                    hitTestSourceRequested, arSession, xrSession, isPresenting,
                    pendingSetSession, pendingHitTest, issued, failedInSession >>
    /\ lastQuery' = NoQuery
    /\ sessionCall' = RequestSession(sessionRequestPending, xrSession)

\* Click on the AR button: startAR, up to the await of requestSession.  The
\* platform rejects a request made while it is busy, and the catch block
\* runs before any other handler.
ClickARButton ==
    /\ initDone
    /\ IF isARSupported
       THEN IF Busy(sessionRequestPending, xrSession)
            THEN /\ ui' = StartFailed(ShowStatus(ui, "Starting AR session..."))
                 /\ UNCHANGED sessionRequestPending
            ELSE /\ ui' = ShowStatus(ui, "Starting AR session...")
                 /\ sessionRequestPending' = TRUE
       ELSE /\ ui' = ShowStatus(ui, "WebXR AR not supported on this device")
            /\ UNCHANGED sessionRequestPending
    /\ UNCHANGED << loadThrew, animationContext, modelLoaded, initDone, isARSupported, modelType, modelRot, scene,
                    placedModels, reticle, hitTestSource,
                    hitTestSourceRequested, arSession, xrSession, isPresenting,
                    pendingSetSession, pendingHitTest, issued, failedInSession >>
    /\ lastQuery' = NoQuery
    /\ sessionCall' = IF isARSupported
                      THEN RequestSession(sessionRequestPending, xrSession)
                      ELSE "none"

\* Mutant of SceneOnSessionStart: the prototype is left in the scene
SceneOnSessionStart_KeepsPrototype(children) == children

\* onARSessionStart: the scene after the 'sessionstart' event
SceneOnSessionStart(children) ==
    IF Includes(children, ModelNode) THEN RemoveNode(children, ModelNode) ELSE children

\* onARSessionStart: the UI after the 'sessionstart' event
UiOnSessionStart(u) ==
    HideStatus([u EXCEPT !.arActive = TRUE, !.instruction = "ar"])

\* requestSession resolves: startAR goes on to renderer.xr.setSession, which
\* registers its listeners on the session and awaits the platform
\* (requestReferenceSpace).  The renderer is not presenting yet and the
\* status on display stays.  The 'end' event of a session being ended is
\* delivered before a later request resolves.
SessionRequestResolved ==
    /\ sessionRequestPending
    /\ xrSession = NoSession
    /\ pendingSetSession.cur + pendingSetSession.old < MaxSetups
    /\ sessionRequestPending' = FALSE
    /\ xrSession' = "running"
    /\ pendingSetSession' = [pendingSetSession EXCEPT !.cur = @ + 1]
    /\ UNCHANGED << loadThrew, animationContext, modelLoaded, initDone, isARSupported, modelType, modelRot, scene,
                    placedModels, reticle, hitTestSource,
                    hitTestSourceRequested, arSession, isPresenting,
                    pendingHitTest, issued, failedInSession, ui >>
    /\ lastQuery' = NoQuery
    /\ sessionCall' = "none"

\* renderer.xr.setSession succeeds on the platform's session: the renderer
\* gives its XR animation loop the session as context and presents, its
\* 'sessionstart' event runs onARSessionStart, then startAR stores the
\* session
SessionGranted ==
    /\ pendingSetSession.cur > 0
    /\ xrSession = "running"
    /\ pendingSetSession' = [pendingSetSession EXCEPT !.cur = @ - 1]
    /\ animationContext' = TRUE
    /\ isPresenting' = TRUE
    /\ arSession' = "running"
    /\ scene' = SceneOnSessionStart(scene)
    /\ ui' = UiOnSessionStart(ui)
    /\ issued' = 0
    /\ failedInSession' = FALSE
    /\ UNCHANGED << loadThrew, modelLoaded, initDone, isARSupported, modelType, modelRot, placedModels,
                    reticle, hitTestSource, hitTestSourceRequested,
                    xrSession, sessionRequestPending, pendingHitTest >>
    /\ lastQuery' = NoQuery
    /\ sessionCall' = "none"

\* renderer.xr.setSession rejects, on the platform's session (of = "cur",
\* the session stays) or on one that ended meanwhile (of = "old"): no
\* 'sessionstart', startAR's catch block runs
SessionSetupFails(of) ==
    /\ pendingSetSession[of] > 0
    /\ pendingSetSession' = [pendingSetSession EXCEPT ![of] = @ - 1]
    /\ ui' = StartFailed(ui)
    /\ UNCHANGED << loadThrew, animationContext, modelLoaded, initDone, isARSupported, modelType, modelRot, scene,
                    placedModels, reticle, hitTestSource,
                    hitTestSourceRequested, arSession, xrSession, isPresenting,
                    sessionRequestPending, pendingHitTest, issued,
                    failedInSession >>
    /\ lastQuery' = NoQuery
    /\ sessionCall' = "none"

\* requestSession rejects: startAR's catch block
SessionRejected ==
    /\ sessionRequestPending
    /\ sessionRequestPending' = FALSE
    /\ ui' = StartFailed(ui)
    /\ UNCHANGED << loadThrew, animationContext, modelLoaded, initDone, isARSupported, modelType, modelRot, scene,
                    placedModels, reticle, hitTestSource,
                    hitTestSourceRequested, arSession, xrSession, isPresenting,
                    pendingSetSession, pendingHitTest, issued, failedInSession >>
    /\ lastQuery' = NoQuery
    /\ sessionCall' = "none"

\* Mutant of SceneOnSessionEnd: the placed clones are left in the scene
SceneOnSessionEnd_KeepsClones(children, placed) ==
    IF ~Includes(children, ModelNode) THEN AddNode(children, ModelNode) ELSE children

\* Mutant of SceneOnSessionEnd: the prototype is pushed without looking
\* whether the scene holds it
SceneOnSessionEnd_AlwaysPush(children, placed) ==
    Append(RemoveAll(children, placed), ModelNode)

\* onARSessionEnd: the scene after the cleanup
SceneOnSessionEnd(children, placed) ==
    LET cleared == RemoveAll(children, placed)
    IN  IF ~Includes(cleared, ModelNode) THEN AddNode(cleared, ModelNode) ELSE cleared

\* onARSessionEnd: the UI after the cleanup
UiOnSessionEnd(u) ==
    [u EXCEPT !.arActive = FALSE, !.surfaceDetected = FALSE, !.instruction = "idle"]

\* The 'end' event of the session: the renderer stops presenting (if it
\* was) and its 'sessionend' event runs onARSessionEnd.  this.arSession and
\* this.reticle are not assigned (only the DOM element #reticle is hidden):
\* the reference in arSession now is to an ended session.  Requests of the
\* session that are unsettled stay unsettled, and a setSession call on it
\* that is unsettled will reject.
OnARSessionEnd ==
    /\ xrSession' = NoSession
    /\ isPresenting' = FALSE
    /\ arSession' = IF arSession = "running" THEN "ended" ELSE arSession
    /\ pendingHitTest' = [cur |-> 0, old |-> pendingHitTest.old + pendingHitTest.cur]
    /\ pendingSetSession' = [cur |-> 0,
                             old |-> pendingSetSession.old + pendingSetSession.cur]
    /\ ui' = UiOnSessionEnd(ui)
    /\ scene' = SceneOnSessionEnd(scene, placedModels)
    /\ placedModels' = <<>>
    /\ hitTestSource' = NoSource
    /\ hitTestSourceRequested' = FALSE
    /\ lastQuery' = NoQuery
    /\ UNCHANGED << loadThrew, animationContext, modelLoaded, initDone, isARSupported, modelType, modelRot, reticle,
                    sessionRequestPending, issued, failedInSession >>

\* stopAR's call: if (this.arSession) this.arSession.end(), on the
\* platform's active session or on one that has ended or is being ended
EndCall(session, platform) ==
    IF session = NoSession THEN "none"
    ELSE IF session = "running" /\ platform = "running" THEN "end"
    ELSE "endOnEnded"

\* Click on the stop button: stopAR calls arSession.end() and returns.
\* end() shuts the session down and its 'end' event is delivered in a later
\* task; end() on a session that already ended rejects and changes nothing.
StopAR ==
    /\ initDone
    /\ sessionCall' = EndCall(arSession, xrSession)
    /\ xrSession' = IF EndCall(arSession, xrSession) = "end" THEN "ending"
                    ELSE xrSession
    /\ lastQuery' = NoQuery
    /\ UNCHANGED << loadThrew, animationContext, modelLoaded, initDone, isARSupported, modelType, modelRot, scene,
                    placedModels, reticle, hitTestSource,
                    hitTestSourceRequested, arSession, isPresenting,
                    sessionRequestPending, pendingSetSession,
                    pendingHitTest, issued, failedInSession, ui >>

\* The 'end' event of the session stopAR ended is delivered
SessionEndEvent ==
    /\ xrSession = "ending"
    /\ OnARSessionEnd
    /\ sessionCall' = "none"

\* The renderer's handler of the session's 'end' event when its XR
\* animation loop has no context yet (no setSession call has completed on
\* this page): stopping the loop raises before 'sessionend' is dispatched,
\* so onARSessionEnd does not run.  The session is gone and a setSession
\* call on it that is unsettled will reject.
EndWithoutSessionEnd ==
    /\ xrSession' = NoSession
    /\ pendingSetSession' = [cur |-> 0,
                             old |-> pendingSetSession.old + pendingSetSession.cur]
    /\ lastQuery' = NoQuery
    /\ UNCHANGED << loadThrew, animationContext, modelLoaded, initDone, isARSupported,
                    modelType, modelRot, scene, placedModels, reticle,
                    hitTestSource, hitTestSourceRequested, arSession,
                    isPresenting, sessionRequestPending, pendingHitTest,
                    issued, failedInSession, ui >>

\* The platform ends the active session (the user leaves AR) and the 'end'
\* event is delivered to the renderer, which dispatches 'sessionend' if it
\* gets that far
PlatformEnd ==
    /\ xrSession = "running"
    /\ IF animationContext THEN OnARSessionEnd ELSE EndWithoutSessionEnd
    /\ sessionCall' = "none"

\* ------------------------------------------------------------- placement
\* onSelect's guard: if (!this.arSession || !this.reticle.visible) return
SelectPlaces(session, ret) == session # NoSession /\ ret.visible

\* Click on the canvas: onSelect
OnSelect ==
    /\ initDone
    /\ IF SelectPlaces(arSession, reticle)
       THEN /\ Len(placedModels) < MaxClones
            /\ placedModels' = Append(placedModels, PlaceClone(FreshId(scene), reticle))
            /\ scene' = AddNode(scene, FreshId(scene))
       ELSE UNCHANGED << loadThrew, animationContext, placedModels, scene >>
    /\ UNCHANGED << loadThrew, animationContext, modelLoaded, initDone, isARSupported, modelType, modelRot, reticle,
                    hitTestSource, hitTestSourceRequested, arSession, xrSession,
                    isPresenting, sessionRequestPending, pendingSetSession, pendingHitTest, issued, failedInSession, ui >>
    /\ lastQuery' = NoQuery
    /\ sessionCall' = "none"

\* ------------------------------------------------------------ frame loop
\* handleHitTest: the request is made when the flag is not set
IssuesRequest(requested) == ~requested

\* render: the preview rotation of the prototype applies
PreviewRotates(children, session) == Includes(children, ModelNode) /\ session = NoSession

\* One animation-loop callback: render.  renderer.xr.getFrame() is an
\* XRFrame only while the renderer is presenting.  handleHitTest runs up to
\* its first await: it either issues the capability request, or queries
\* with the cached source (results is what the platform returns, <<>> when
\* no query is answered; a source of an ended session makes the query raise).
Render(results) ==
    /\ initDone
    /\ xrSession # "ending"
    /\ LET hitTest == isPresenting /\ arSession # NoSession
           issues  == hitTest /\ IssuesRequest(hitTestSourceRequested)
           queries == hitTest /\ ~issues /\ hitTestSource # NoSource
           valid   == queries /\ hitTestSource = "current"
           preview == PreviewRotates(scene, arSession)
       IN  /\ ~valid => results = <<>>
           /\ issues => /\ issued < MaxRequests
                         /\ pendingHitTest.cur + pendingHitTest.old < MaxRequests
           /\ \A i \in 1..Len(placedModels) : placedModels[i].rot < MaxRot
           /\ preview => modelRot < MaxRot
           /\ pendingHitTest' = IF issues
                                THEN [pendingHitTest EXCEPT !.cur = @ + 1]
                                ELSE pendingHitTest
           /\ issued' = IF issues THEN issued + 1 ELSE issued
           /\ reticle' = IF valid THEN ReticleUpdate(reticle, results) ELSE reticle
           /\ ui' = IF valid
                    THEN [ui EXCEPT !.surfaceDetected = SurfaceDetected(@, results)]
                    ELSE ui
           /\ lastQuery' = IF valid THEN Observed(results)
                           ELSE IF queries THEN QueryThrew
                           ELSE NoQuery
           /\ sessionCall' = "none"
           /\ placedModels' = RotatePlaced(placedModels)
           /\ modelRot' = IF preview THEN modelRot + RotationSpeed ELSE modelRot
    /\ UNCHANGED << loadThrew, animationContext, modelLoaded, initDone, isARSupported, modelType, scene,
                    hitTestSource, hitTestSourceRequested, arSession, xrSession,
                    isPresenting, sessionRequestPending, pendingSetSession, failedInSession >>

\* handleHitTest after its await: the query on the frame of the callback
\* that issued the request, which has returned by now.  It is answered only
\* if the source is of the running session, and then the platform decides
\* whether a query on an inactive frame raises or returns no result.
StaleAnswered(source, outcome) == source = "current" /\ outcome = "empty"

StaleQuery(ret, source, outcome) ==
    IF StaleAnswered(source, outcome) THEN ReticleUpdate(ret, <<>>) ELSE ret

\* if (this.hitTestSource) after the await: the query the continuation makes
QueryAfterAwait(source, outcome) ==
    IF source = NoSource THEN NoQuery
    ELSE [made |-> TRUE, threw |-> ~StaleAnswered(source, outcome),
          count |-> 0, first |-> NoPose, frame |-> "returned"]

\* The source a request made in the running session (of = "cur") or in an
\* ended one (of = "old") resolves to
SourceOf(of) == IF of = "cur" THEN "current" ELSE "stale"

\* A capability request resolves: the rest of handleHitTest
HitTestSourceResolved(of, outcome) ==
    /\ pendingHitTest[of] > 0
    /\ of = "cur" => xrSession = "running"
    /\ pendingHitTest' = [pendingHitTest EXCEPT ![of] = @ - 1]
    /\ SourceOf(of) # "current" => outcome = "raised"
    /\ hitTestSource' = SourceOf(of)
    /\ hitTestSourceRequested' = TRUE
    /\ reticle' = StaleQuery(reticle, hitTestSource', outcome)
    /\ ui' = IF StaleAnswered(hitTestSource', outcome)
             THEN [ui EXCEPT !.surfaceDetected = SurfaceDetected(@, <<>>)]
             ELSE ui
    /\ lastQuery' = QueryAfterAwait(hitTestSource', outcome)
    /\ sessionCall' = "none"
    /\ UNCHANGED << loadThrew, animationContext, modelLoaded, initDone, isARSupported, modelType, modelRot, scene,
                    placedModels, arSession, xrSession, isPresenting,
                    sessionRequestPending, pendingSetSession, issued,
                    failedInSession >>

\* handleHitTest's catch block: the flag after a rejected request
RequestedOnReject(requested) == requested

\* A capability request is rejected: the catch block, then the rest of
\* handleHitTest
HitTestSourceRejected(of, outcome) ==
    /\ pendingHitTest[of] > 0
    /\ pendingHitTest' = [pendingHitTest EXCEPT ![of] = @ - 1]
    /\ hitTestSourceRequested' = RequestedOnReject(hitTestSourceRequested)
    /\ failedInSession' = IF of = "cur" THEN TRUE ELSE failedInSession
    /\ hitTestSource # "current" => outcome = "raised"
    /\ reticle' = StaleQuery(reticle, hitTestSource, outcome)
    /\ ui' = IF StaleAnswered(hitTestSource, outcome)
             THEN [ui EXCEPT !.surfaceDetected = SurfaceDetected(@, <<>>)]
             ELSE ui
    /\ lastQuery' = QueryAfterAwait(hitTestSource, outcome)
    /\ sessionCall' = "none"
    /\ UNCHANGED << loadThrew, animationContext, modelLoaded, initDone, isARSupported, modelType, modelRot, scene,
                    placedModels, hitTestSource, arSession,
                    xrSession, isPresenting, sessionRequestPending, pendingSetSession,
                    issued >>

\* ------------------------------------------------------------------ Next
Next ==
    \/ \E outcome \in LoadOutcomes : LoadModel(outcome)
    \/ \E supported \in BOOLEAN : InitApp(supported)
    \/ HideStatusTimer
    \/ ClickARButton
    \/ SessionRequestResolved
    \/ SessionGranted
    \/ \E of \in {"cur", "old"} : SessionSetupFails(of)
    \/ SessionRejected
    \/ StopAR
    \/ SessionEndEvent
    \/ PlatformEnd
    \/ OnSelect
    \/ \E results \in HitLists : Render(results)
    \/ \E of \in {"cur", "old"}, outcome \in StaleOutcomes : HitTestSourceResolved(of, outcome)
    \/ \E of \in {"cur", "old"}, outcome \in StaleOutcomes : HitTestSourceRejected(of, outcome)

Spec == Init /\ [][Next]_vars

\* ================================================================ claims
\* Matrix4.compose with unit scale: the transform a position and a
\* quaternion <<x, y, z, w>> stand for, column-major
PoseMatrix(pos, q) ==
    LET x == q[1]  y == q[2]  z == q[3]  w == q[4]
    IN  << 1 - 2 * (y * y + z * z), 2 * (x * y + w * z), 2 * (x * z - w * y), 0,
           2 * (x * y - w * z), 1 - 2 * (x * x + z * z), 2 * (y * z + w * x), 0,
           2 * (x * z + w * y), 2 * (y * z - w * x), 1 - 2 * (x * x + y * y), 0,
           pos[1], pos[2], pos[3], 1 >>

IsClone(n) == n # ModelNode /\ n # ReticleNode

\* C1: within one Active session the capability request is issued at most
\* once, however many frames are rendered before it resolves.
C1_AtMostOneRequest == isPresenting => issued <= 1

\* C2: a confirmation while the reticle is invisible or no AR session is
\* active (also after a session has ended) leaves the placed-instances
\* collection and the scene unchanged.
C2_SelectOutsideIsNoOp ==
    [][(OnSelect /\ (~isPresenting \/ ~reticle.visible))
          => (placedModels' = placedModels /\ scene' = scene)]_vars

\* C3: a confirmation while a session is active and the reticle is visible
\* appends exactly one instance, whose position and orientation are the
\* reticle's at that moment; the instances placed before stay as they were.
C3_SelectPlacesAtReticle ==
    [][(OnSelect /\ isPresenting /\ reticle.visible)
          => /\ Len(placedModels') = Len(placedModels) + 1
             /\ SubSeq(placedModels', 1, Len(placedModels)) = placedModels
             /\ placedModels'[Len(placedModels')].position = reticle.position
             /\ placedModels'[Len(placedModels')].quaternion = reticle.quaternion]_vars

\* C3 witness: in a session, a frame with a pose made the reticle visible
\* and the confirmation that followed placed an instance where the reticle
\* is, turned as the reticle is
C3_Witness ==
    /\ isPresenting /\ reticle.visible
    /\ hitTestSource = "current"
    /\ Len(placedModels) = 1
    /\ placedModels[1].rot = 0
    /\ placedModels[1].position = reticle.position
    /\ placedModels[1].quaternion = reticle.quaternion

\* C4: in every session, the reticle is invisible in every state in which
\* the session has no resolved and cached hit-test capability.
C4_HiddenWithoutCapability ==
    (isPresenting /\ hitTestSource # "current") => ~reticle.visible

\* C5: in every state in which no AR session is active, the cached handle
\* is empty and the request flag is false (a resolution that arrives after
\* the session ended is discarded).
C5_IdleIsUninitialized ==
    ~isPresenting => (hitTestSource = NoSource /\ ~hitTestSourceRequested)

\* C6: a session started after one that ended with its request unresolved
\* begins Uninitialized and stays clear of the old request: its flag is set
\* only by a request of its own, and it never holds a handle of the old
\* session.
C6_FreshRequestInNewSession ==
    isPresenting => /\ hitTestSource # "stale"
                    /\ (hitTestSourceRequested => issued >= 1)

\* C7: the transition Active -> Idle leaves the collection empty, no placed
\* instance in the scene, and the prototype in the scene exactly once.
C7_EndClears ==
    [][(isPresenting /\ ~isPresenting')
          => /\ placedModels' = <<>>
             /\ \A i \in 1..Len(scene') : ~IsClone(scene'[i])
             /\ Occurrences(scene', ModelNode) = 1]_vars

\* C7 witness: a session that was started has ended, and the scene holds the
\* prototype and the reticle only
C7_Witness ==
    /\ ~isPresenting
    /\ arSession = "ended"
    /\ placedModels = <<>>
    /\ Occurrences(scene, ModelNode) = 1
    /\ Len(scene) = 2

\* C8: after a frame whose query, made with a ready capability, returned
\* results the first of which resolves to pose P, the reticle is visible at
\* pose P; after a frame whose query returned no result it is invisible.
C8_ReticleFollowsFirstHit ==
    (lastQuery.made /\ ~lastQuery.threw) =>
        /\ (lastQuery.count > 0 /\ lastQuery.first # NoPose) =>
               /\ reticle.visible
               /\ PoseMatrix(reticle.position, reticle.quaternion) = lastQuery.first
        /\ lastQuery.count = 0 => ~reticle.visible

\* C9: after a frame processed with a ready capability the reticle is
\* visible exactly if the query returned a result with a resolvable pose.
C9_VisibleIffResolvable ==
    (lastQuery.made /\ ~lastQuery.threw) =>
        (reticle.visible <=> (lastQuery.count > 0 /\ lastQuery.first # NoPose))

\* C10: once a capability request has failed in a session, no further
\* request is issued in that session and the reticle does not become
\* visible in it.
C10_NoRetryAfterFailure ==
    [][(isPresenting /\ isPresenting' /\ failedInSession)
          => /\ issued' = issued
             /\ (reticle'.visible => reticle.visible)]_vars

\* C11: the explicit stop and the platform-initiated end leave the same
\* state: no placed instance, the hit-test manager Uninitialized (no handle,
\* no request recorded), the prototype back in the scene, and the reticle's
\* visibility flag false.
C11_SameCleanupBothPaths ==
    [][((SessionEndEvent \/ PlatformEnd) /\ isPresenting /\ ~isPresenting')
          => /\ placedModels' = <<>>
             /\ hitTestSource' = NoSource
             /\ ~hitTestSourceRequested'
             /\ Includes(scene', ModelNode)
             /\ ~reticle'.visible]_vars

\* C12: whenever no session is active (before the first one and after the
\* session-end event of each), the application's session handle is empty.
C12_HandleEmptyWhenIdle == ~isPresenting => arSession = NoSession

\* C13: in every state in which a session is active the prototype is not in
\* the scene, and it is never an element of the placed-instances collection
\* (the placed instances in the scene are clones).
C13_PrototypeOutWhileActive ==
    /\ isPresenting => ~Includes(scene, ModelNode)
    /\ \A i \in 1..Len(placedModels) : IsClone(placedModels[i].id)

\* C13 witness: a session is active, a clone has been placed and is in the
\* scene, the prototype is not
C13_Witness ==
    /\ isPresenting
    /\ Len(placedModels) = 1
    /\ Includes(scene, placedModels[1].id)
    /\ ~Includes(scene, ModelNode)

\* C14: when the platform reports AR as unsupported, a click on the AR
\* button shows the not-supported message next to the fallback message, and
\* at no time is a session requested or active, the session handle set, or a
\* hit-test capability request issued.
C14_UnsupportedStaysIdle ==
    /\ [](~isARSupported =>
             /\ ~sessionRequestPending /\ xrSession = NoSession
             /\ ~isPresenting /\ arSession = NoSession
             /\ issued = 0 /\ pendingHitTest = [cur |-> 0, old |-> 0])
    /\ [][(ClickARButton /\ ~isARSupported)
            => /\ ui'.status = "WebXR AR not supported on this device"
               /\ ui'.fallbackShown
               /\ ~sessionRequestPending']_vars

\* C14 witness: on an unsupported platform the AR button was clicked: the
\* message is on display and nothing was requested
C14_Witness ==
    /\ initDone /\ ~isARSupported
    /\ ui.status = "WebXR AR not supported on this device"
    /\ ui.fallbackShown
    /\ ~sessionRequestPending /\ arSession = NoSession

\* C15: when a session request made while no session is active fails (the
\* platform rejects it, at once or later, or setting the session on the
\* renderer fails), no session becomes active, the session handle is left
\* as it was (empty if it was empty), the scene keeps the prototype, no
\* hit-test request is issued, and the failure status is shown.
C15_StartFailureStaysIdle ==
    [][(/\ ~isPresenting
        /\ \/ SessionRejected
           \/ \E of \in {"cur", "old"} : SessionSetupFails(of)
           \/ (ClickARButton /\ isARSupported
                  /\ Busy(sessionRequestPending, xrSession)))
          => /\ ~isPresenting'
             /\ arSession' = arSession
             /\ scene' = scene /\ Includes(scene', ModelNode)
             /\ issued' = issued /\ pendingHitTest' = pendingHitTest
             /\ ui'.status = "Failed to start AR session"]_vars

\* C15 witness: the first start failed at setSession: the platform has a
\* session, the application has none, and the failure is on display
C15_Witness ==
    /\ xrSession = "running" /\ ~isPresenting
    /\ pendingSetSession = [cur |-> 0, old |-> 0]
    /\ arSession = NoSession
    /\ Includes(scene, ModelNode)
    /\ issued = 0 /\ pendingHitTest = [cur |-> 0, old |-> 0]
    /\ ui.status = "Failed to start AR session"

\* C16: every confirmation fired while a session is active and the reticle
\* is visible adds exactly one instance, a new object distinct from every
\* instance placed before, with the reticle's pose of that moment, and
\* leaves the earlier instances as they were; so n confirmations add n
\* instances, and two in a row with the reticle unchanged add two instances
\* with the same pose.
C16_ConfirmationsIndependent ==
    [][(OnSelect /\ isPresenting /\ reticle.visible)
          => LET n   == Len(placedModels)
                 new == placedModels'[n + 1]
             IN  /\ Len(placedModels') = n + 1
                 /\ \A i \in 1..n : /\ placedModels'[i] = placedModels[i]
                                     /\ new.id # placedModels[i].id
                 /\ Occurrences(scene', new.id) = 1
                 /\ ~Includes(scene, new.id)
                 /\ new.position = reticle.position
                 /\ new.quaternion = reticle.quaternion]_vars

\* C16 witness: two confirmations with no frame in between: two distinct
\* instances, both at the pose the reticle still has
C16_Witness ==
    /\ isPresenting /\ reticle.visible
    /\ Len(placedModels) = 2
    /\ placedModels[1].id # placedModels[2].id
    /\ placedModels[1].rot = 0 /\ placedModels[2].rot = 0
    /\ \A i \in 1..2 : /\ placedModels[i].position = reticle.position
                        /\ placedModels[i].quaternion = reticle.quaternion

\* C17: the session-end cleanup is idempotent.  From every state the
\* application reaches once its listeners are set up,
\* the scene and the UI it leaves are left as they are by a second run (the
\* collection and the hit-test manager are assigned the same constants by
\* both), with the prototype in the scene exactly once; and a run of
\* onARSessionEnd that finds the state as a run leaves it changes none of
\* scene, collection, manager and reticle.
C17_CleanupIdempotent ==
    /\ [](initDone =>
            LET once == SceneOnSessionEnd(scene, placedModels)
            IN  /\ SceneOnSessionEnd(once, <<>>) = once
                /\ Occurrences(once, ModelNode) = 1
                /\ UiOnSessionEnd(UiOnSessionEnd(ui)) = UiOnSessionEnd(ui))
    /\ [][(/\ PlatformEnd /\ animationContext
           /\ ~isPresenting /\ placedModels = <<>>
           /\ hitTestSource = NoSource /\ ~hitTestSourceRequested)
             => /\ scene' = scene /\ Occurrences(scene', ModelNode) = 1
                /\ placedModels' = <<>>
                /\ hitTestSource' = NoSource /\ ~hitTestSourceRequested'
                /\ reticle' = reticle
                /\ ui' = UiOnSessionEnd(ui)]_vars

\* C17 witness: a session was active and ended (first run); a second one
\* was requested and the platform ended it while setSession was awaited, so
\* onARSessionEnd ran again with no session active in between: the state is
\* as the first run left it
C17_Witness ==
    /\ arSession = "ended" /\ animationContext
    /\ ~sessionRequestPending
    /\ ui.status = "Starting AR session..." /\ ui.instruction = "idle"
    /\ pendingSetSession = [cur |-> 0, old |-> 1]
    /\ ~isPresenting /\ xrSession = NoSession
    /\ placedModels = <<>>
    /\ hitTestSource = NoSource /\ ~hitTestSourceRequested
    /\ Occurrences(scene, ModelNode) = 1 /\ Len(scene) = 2

\* C18: loadModel never raises, and once it has returned, whether the asset
\* loaded, came without a scene or failed to load, the model prototype is
\* not null: it is the loaded asset or the procedural fallback.
C18_ModelNeverNull ==
    /\ ~loadThrew
    /\ modelLoaded => modelType \in {"glb", "icosahedron"}

\* C19: obtaining the model leaves scene membership unchanged; the model
\* is inserted by the caller.
C19_LoadLeavesScene ==
    [][(\E outcome \in LoadOutcomes : LoadModel(outcome)) => scene' = scene]_vars

\* C20: every hit-test query is made on the frame whose callback is
\* executing, never on a frame whose callback has returned.
C20_QueryOnCurrentFrame == lastQuery.made => lastQuery.frame = "current"

\* C21: the capability request does not block the frame callback.  Every
\* render during a session, also one that issues the request or runs while
\* one is unresolved, animates every placed instance in the same callback,
\* and the cached handle and the request flag are as before when it
\* returns: a resolution is seen by a later frame.
C21_RequestDoesNotBlockFrame ==
    [][(isPresenting /\ \E results \in HitLists : Render(results))
          => /\ Len(placedModels') = Len(placedModels)
             /\ \A i \in 1..Len(placedModels) :
                    placedModels'[i].rot = placedModels[i].rot + RotationSpeed
             /\ hitTestSource' = hitTestSource
             /\ hitTestSourceRequested' = hitTestSourceRequested
             /\ pendingHitTest'.cur >= pendingHitTest.cur]_vars

\* C21 witness: a frame was rendered with a request unresolved, and the
\* placed instance was animated by it
C21_Witness ==
    /\ isPresenting
    /\ pendingHitTest.cur >= 1
    /\ Len(placedModels) >= 1
    /\ placedModels[1].rot = 1

\* C22: a frame's query comes before its reticle update and the update is
\* complete before any confirmation is handled.  A visible reticle always
\* carries the position and the orientation of one and the same reported
\* pose, and an instance placed by a confirmation carries such a pose,
\* never a half-written one.
C22_ConfirmationReadsWholeUpdate ==
    /\ [](reticle.visible =>
             PoseMatrix(reticle.position, reticle.quaternion) \in Matrices)
    /\ [][(OnSelect /\ Len(placedModels') = Len(placedModels) + 1)
            => LET new == placedModels'[Len(placedModels')]
               IN  /\ PoseMatrix(new.position, new.quaternion) \in Matrices
                   /\ new.position = reticle.position
                   /\ new.quaternion = reticle.quaternion]_vars

\* C23: the reticle is a pure projection of the latest frame's result.
\* After a frame processed with a ready capability, its visibility (and its
\* pose when visible) is what the same result gives in a run in which this
\* is the first such frame, the reticle still as created: it does not
\* depend on the frames before.
C23_ReticleIsProjection ==
    [][(lastQuery'.made /\ ~lastQuery'.threw /\ lastQuery'.frame = "current")
          => LET created == [visible |-> FALSE, position |-> ZeroPosition,
                             quaternion |-> IdentityQuaternion]
                 results == IF lastQuery'.count > 0
                            THEN <<lastQuery'.first>> ELSE <<>>
                 first   == ReticleUpdate(created, results)
             IN  /\ reticle'.visible = first.visible
                 /\ reticle'.visible => reticle' = first]_vars

\* C24: a placed instance is independent once created.  No step other than
\* the end of a session (a frame, a reticle update, another confirmation,
\* a request settling) changes its position or orientation, its place in
\* the collection, or its membership of the scene.
C24_PlacedInstanceIndependent ==
    [][~(SessionEndEvent \/ PlatformEnd)
          => /\ Len(placedModels') >= Len(placedModels)
             /\ \A i \in 1..Len(placedModels) :
                    /\ placedModels'[i].id = placedModels[i].id
                    /\ placedModels'[i].position = placedModels[i].position
                    /\ placedModels'[i].quaternion = placedModels[i].quaternion
                    /\ Includes(scene', placedModels[i].id)]_vars

\* C24 witness: an instance was placed, a later frame animated it, and
\* another confirmation followed: both instances are in the scene, the
\* first where it was placed
C24_Witness ==
    /\ isPresenting /\ reticle.visible
    /\ Len(placedModels) = 2
    /\ placedModels[1].rot = 1 /\ placedModels[2].rot = 0
    /\ placedModels[1].id # placedModels[2].id
    /\ placedModels[1].position = ZeroPosition
    /\ placedModels[1].quaternion = IdentityQuaternion
    /\ Includes(scene, placedModels[1].id)
    /\ Includes(scene, placedModels[2].id)

\* C25: every render advances the rotation of each placed instance by
\* exactly one increment, its rate being the constant assigned at placement,
\* and no other step changes it, so an instance has advanced by k increments
\* after k renders; the prototype's rotation is advanced only by a render,
\* by one increment, while no session is active and the prototype is in the
\* scene.
C25_RotationPerRender ==
    [][LET rendered == \E results \in HitLists : Render(results)
           kept     == IF Len(placedModels') < Len(placedModels)
                       THEN Len(placedModels') ELSE Len(placedModels)
       IN  /\ \A i \in 1..Len(placedModels) :
                  placedModels[i].rotationSpeed = RotationSpeed
           /\ (\E i \in 1..kept : placedModels'[i].rot # placedModels[i].rot)
                  => rendered
           /\ modelRot' # modelRot =>
                  /\ rendered
                  /\ ~isPresenting /\ Includes(scene, ModelNode)
                  /\ modelRot' = modelRot + RotationSpeed
           /\ \/ /\ Len(placedModels') = Len(placedModels)
                 /\ \A i \in 1..Len(placedModels) :
                        placedModels'[i].rot = placedModels[i].rot + RotationSpeed
              \/ ~rendered]_vars

\* C25 witness: the prototype was turned twice in the preview before the
\* session, and in the session one instance has been through two renders
\* and a second, placed a render after it, through one
C25_Witness ==
    /\ isPresenting /\ modelRot = 2
    /\ Len(placedModels) = 2
    /\ placedModels[1].rot = 2 /\ placedModels[2].rot = 1
    /\ placedModels[1].rotationSpeed = RotationSpeed

\* C26: the placed-instances collection and the scene agree in every
\* reachable state: every element of the collection is in the scene (once),
\* every clone in the scene is an element of the collection, and no
\* instance occurs twice in the collection.
C26_CollectionMatchesScene ==
    /\ \A i \in 1..Len(placedModels) : Occurrences(scene, placedModels[i].id) = 1
    /\ \A k \in 1..Len(scene) :
           IsClone(scene[k]) => \E i \in 1..Len(placedModels) : placedModels[i].id = scene[k]
    /\ \A i, j \in 1..Len(placedModels) :
           placedModels[i].id = placedModels[j].id => i = j

\* C26 witness: a session holds two instances, and the scene is the reticle
\* and these two
C26_Witness ==
    /\ isPresenting
    /\ Len(placedModels) = 2
    /\ Len(scene) = 3
    /\ \A i \in 1..2 : Includes(scene, placedModels[i].id)

\* C27: stopAR calls end() only on a session that is active, never on one
\* that has already ended (a stop after a platform-initiated end, or two
\* stops in a row).
C27_StopOnlyEndsActive == sessionCall # "endOnEnded"

\* C28: at most one session is requested or active at a time: no session
\* request is made while an earlier one is pending or a session is running,
\* and while frames of a session are rendered the stored handle is that
\* session.
C28_OneSessionAtATime ==
    /\ sessionCall # "requestSessionWhileBusy"
    /\ isPresenting => arSession = "running"
====
